---------------------------- MODULE Spec2Model ----------------------------
(***************************************************************************)
(* A model of MCPOpenAIClient (src/simple-server-setup/client_sse.py): the *)
(* round controller process_query, the tool dispatcher run_one with its    *)
(* result cache, the session store and the compactor _summarize_if_needed. *)
(*                                                                         *)
(* The client runs on one asyncio event loop, so the code between two      *)
(* awaits is one atomic step.  Each action below is one such step.  The    *)
(* chat model and the tool backend are external: their answers are inputs  *)
(* drawn from small sets, and each of their calls may also raise.          *)
(***************************************************************************)
EXTENDS Integers, Sequences, FiniteSets, TLC

(***************************************************************************)
(* Bounds of the model.                                                    *)
(***************************************************************************)
MaxTurns == 2
MaxRoundsArg == 2
MaxBatch == 2
MaxRequests == 2
MaxPairs == 4
MaxCleanups == 2

(***************************************************************************)
(* Program constants.                                                      *)
(***************************************************************************)
max_chars == 8000
KeepTail == 6
Window == 10

None == "<None>"

Procs == {"p1", "p2"}
SessionIds == {"s1", "s2"}
SessionOrder == <<"s1", "s2">>

(***************************************************************************)
(* Texts.  LongText stands for a question of 8000 characters and is kept   *)
(* as a short name; TextLen is len() of a text.                            *)
(***************************************************************************)
LongText == "<a question of 8000 characters>"
\* Questions that bring the history of a first turn to the threshold of line
\* 104: with EdgeText the turn serializes to 7998 or 8000 characters, with
\* NearText to 7999 or 8001 (an empty reply, or the reply "ok").
EdgeText == "<a question of 7907 characters>"
NearText == "<a question of 7908 characters>"
TextLen(text) ==
  CASE text = LongText -> 8000
    [] text = EdgeText -> 7907
    [] text = NearText -> 7908
    [] OTHER -> Len(text)
Queries == {"hi", LongText}
Contents == {None, "ok"}
SummaryContents == {None, "brief"}

system_msg ==
  [role |-> "system",
   content |-> "You can use MCP tools. Keep calling tools until the user request is fully completed. "
               \o "Only send a final assistant message when all required tools have been called and "
               \o "their results are incorporated. If essential info is missing, ask the user."]

fallback == "Sorry, I couldn't complete this in time. Please try again."

\* x or "" / x or "{}" of Python: None and the empty string are falsy.
OrElse(x, d) == IF x = None \/ x = "" THEN d ELSE x

Min(a, b) == IF a < b THEN a ELSE b

\* s[-n:] of Python, for n > 0.
LastN(s, n) == SubSeq(s, Len(s) - Min(n, Len(s)) + 1, Len(s))


(***************************************************************************)
(* len(json.dumps(history, ensure_ascii=False)), line 103-104.  The texts  *)
(* of this model hold no character that JSON escapes, so a text is written *)
(* as it is between quotes.  A dict is written key by key in insertion     *)
(* order: the assistant dict of _assistant_to_dict carries a tool_calls    *)
(* key (null in every dict that reaches the history), the fallback dict    *)
(* of line 259 does not.                                                   *)
(***************************************************************************)
JsonLen(m) ==
  Len("{\"role\": \"") + Len(m.role) + Len("\", \"content\": \"") + TextLen(m.content)
    + Len("\"")
    + (IF "tool_calls" \in DOMAIN m THEN Len(", \"tool_calls\": null") ELSE 0)
    + Len("}")

RECURSIVE JsonItemsLen(_)
JsonItemsLen(h) ==
  IF Len(h) = 0 THEN 0
  ELSE IF Len(h) = 1 THEN JsonLen(h[1])
  ELSE JsonLen(h[1]) + Len(", ") + JsonItemsLen(Tail(h))

JsonDumpsLen(h) == Len("[") + JsonItemsLen(h) + Len("]")

(***************************************************************************)
(* Tool requests the chat model may issue.  arguments is the argument text *)
(* of the request; JsonLoads below is json.loads on these texts.          *)
(***************************************************************************)
Requests ==
  { [name |-> "get_SAP_account", arguments |-> "{\"email\": \"shubenkov@example.com\"}"],
    [name |-> "get_SAP_account", arguments |-> "{bad"],
    [name |-> "get_SAP_account", arguments |-> "[1]"],
    [name |-> "get_SAP_account", arguments |-> "{\"email\": [\"shubenkov@example.com\"]}"] }

\* The batches of tool requests of one model response, the empty one included.
Batches == UNION { [1..n -> Requests] : n \in 0..MaxBatch }

\* json.loads(args_json): ok = FALSE when it raises; kind tells a dict from
\* another JSON value; pairs are the items of the dict in insertion order.
JsonLoads(text) ==
  CASE text = "{}" -> [ok |-> TRUE, kind |-> "dict", pairs |-> << >>]
    [] text = "{\"email\": \"shubenkov@example.com\"}" ->
         [ok |-> TRUE, kind |-> "dict",
          pairs |-> << <<"email", "shubenkov@example.com">> >>]
    [] text = "{\"email\": [\"shubenkov@example.com\"]}" ->
         [ok |-> TRUE, kind |-> "dict",
          pairs |-> << <<"email", <<"shubenkov@example.com">> >> >>]
    [] text = "[1]" -> [ok |-> TRUE, kind |-> "list", pairs |-> << >>]
    [] OTHER -> [ok |-> FALSE, kind |-> "none", pairs |-> << >>]

\* A list value cannot be hashed.
Hashable(v) == v \notin {<<"shubenkov@example.com">>}

EmptyArgs == [ok |-> TRUE, kind |-> "dict", pairs |-> << >>]

\* ParseArgs without the handler of lines 224-225.
ParseArgsUnhandled(arguments) == JsonLoads(OrElse(arguments, "{}"))

\* run_one, lines 221-225: the argument payload of a request.
ParseArgs(arguments) ==
  LET args_json == OrElse(arguments, "{}")
      parsed == JsonLoads(args_json)
  IN  IF parsed.ok THEN parsed ELSE EmptyArgs

\* The argument names of the tools (server.py), in the order of str.
ArgNames == <<"data", "email", "user_id">>
Rank(name) == CHOOSE i \in 1..Len(ArgNames) : ArgNames[i] = name

\* sorted(args.items()): insertion sort on the argument names.
RECURSIVE Insert(_, _)
Insert(pair, sorted) ==
  IF sorted = << >> THEN <<pair>>
  ELSE IF Rank(pair[1]) <= Rank(Head(sorted)[1]) THEN <<pair>> \o sorted
  ELSE <<Head(sorted)>> \o Insert(pair, Tail(sorted))

RECURSIVE Sorted(_)
Sorted(pairs) ==
  IF pairs = << >> THEN << >> ELSE Insert(Head(pairs), Sorted(Tail(pairs)))

\* line 231
CacheKey(name, args) == <<name, Sorted(args.pairs)>>

\* What the first synchronous part of run_one does with the payload:
\* args.items() raises on a value that is no dict, and the cache lookup
\* raises when the key holds an unhashable value.
ArgsError(args) ==
  IF args.kind # "dict" THEN "AttributeError"
  ELSE IF \E i \in 1..Len(args.pairs) : ~Hashable(args.pairs[i][2]) THEN "TypeError"
  ELSE None

(***************************************************************************)
(* call_tool.  The tool server answers a call with content items, each     *)
(* with a text or None.  server.py, get_SAP_account: the user name of the  *)
(* known email, nothing for another email, and without an email argument   *)
(* the call is answered with an error text.  A call may also raise (the    *)
(* transport fails); that is an outcome of its own, not a content.         *)
(***************************************************************************)
Lookup(pairs, name) ==
  IF \E i \in 1..Len(pairs) : pairs[i][1] = name
  THEN pairs[CHOOSE i \in 1..Len(pairs) : pairs[i][1] = name][2]
  ELSE None

CallTool(name, pairs) ==
  IF name = "get_SAP_account"
  THEN IF Lookup(pairs, "email") = None
       THEN <<"Error executing tool get_SAP_account">>
       ELSE IF Lookup(pairs, "email") = "shubenkov@example.com"
            THEN <<"SHUBENKOVV">>
            ELSE << >>
  ELSE <<"Unknown tool">>

RECURSIVE Parts(_)
Parts(content) ==
  IF content = << >> THEN << >>
  ELSE IF Head(content) # None /\ Head(content) # ""
       THEN <<Head(content)>> \o Parts(Tail(content))
       ELSE Parts(Tail(content))

RECURSIVE Join(_)
Join(parts) ==
  IF parts = << >> THEN ""
  ELSE IF Len(parts) = 1 THEN parts[1]
  ELSE parts[1] \o "\n" \o Join(Tail(parts))

\* str(result) of a result without text.
StrResult(content) == "meta=None content=[] isError=False"

ToolText(content) == OrElse(Join(Parts(content)), StrResult(content))


(***************************************************************************)
(* State.                                                                  *)
(*   session            self.session is set (a tool session is connected)  *)
(*   _tools_cache        self._tools_cache                                  *)
(*   sessions           self.sessions: session id -> {history, summary};   *)
(*                      persisted is kept beside them for the claims: it   *)
(*                      is every message that lines 211 and 259 have       *)
(*                      appended to the history, in order (the program     *)
(*                      holds no such list)                                *)
(*   _tool_result_cache  self._tool_result_cache: cache key -> text         *)
(*   call               the process_query coroutine of each caller: its    *)
(*                      position (pc), its arguments and its locals;       *)
(*                      serialized is the history that line 103 wrote into *)
(*                      the summarization prompt, kept as the list it was, *)
(*                      and summary_reply the content of the reply to it   *)
(*   orphans            call_tool requests still in flight whose           *)
(*                      process_query has already raised (gather does not  *)
(*                      cancel the siblings of a task that raised)         *)
(*   backend_calls      cache key -> number of call_tool invocations       *)
(*   succeeded          the (key, text) of every call_tool that returned   *)
(*   turns              number of process_query calls made so far          *)
(*   requests           number of tool requests the model has issued       *)
(*   list_tools_calls   number of list_tools queries sent to the server    *)
(*                      since the last connect_to_server began             *)
(*   streams            self._read and self._write are set; the transport  *)
(*                      and the session they belong to are the contexts    *)
(*                      held by self.exit_stack                            *)
(*   server_tools       the tools the server reports to list_tools         *)
(*   tools_result       the list reported to connect_to_server (line 67)   *)
(*   cleanups           number of cleanup calls since the last             *)
(*                      connect_to_server                                  *)
(*   reset_password     the locals of a call of reset_password             *)
(*                      (sap_rfc_modules.py), its position, and the RFC    *)
(*                      calls it has made on the connection                *)
(***************************************************************************)
VARIABLES session, _tools_cache, sessions, _tool_result_cache, call, orphans,
          backend_calls, succeeded, turns, requests, list_tools_calls,
          streams, cleanups, server_tools, tools_result, reset_password

vars == <<session, _tools_cache, sessions, _tool_result_cache, call, orphans,
          backend_calls, succeeded, turns, requests, list_tools_calls,
          streams, cleanups, server_tools, tools_result, reset_password>>

(***************************************************************************)
(* reset_password, sap_rfc_modules.py lines 126-260.                       *)
(***************************************************************************)
\* The keys of config.SAP_SYSTEM_DICT, and a SID that is not one of them.
SAP_SYSTEM_DICT == {"T42", "T44", "Z12", "Z14", "Z22"}
Systems == {"Z12", "Q01"}

\* line 160
required_keys == <<"host", "sysnr", "client", "user", "password">>

\* The connection parameters that the environment leaves unset
\* (os.environ.get gives None for them).
UnsetParams == { {}, {"password"}, {"host", "user"} }

\* line 161
Missing(unset) == SelectSeq(required_keys, LAMBDA k : k \in unset)

\* ", ".join and "; ".join
RECURSIVE JoinWith(_, _)
JoinWith(sep, parts) ==
  IF parts = << >> THEN ""
  ELSE IF Len(parts) = 1 THEN parts[1]
  ELSE parts[1] \o sep \o JoinWith(sep, Tail(parts))

\* m.get(key), and m.get(key, "") of line 205
Get(m, key) == IF key \in DOMAIN m THEN m[key] ELSE None
GetOr(m, key, default) == IF key \in DOMAIN m THEN m[key] ELSE default

\* The RETURN tables BAPI_USER_CHANGE may give: SapMessage dicts, of which
\* every key is optional.
ReturnTables ==
  { << >>,
    << [TYPE |-> "S", MESSAGE |-> "Password changed"] >>,
    << [MESSAGE |-> "note"] >>,
    << [TYPE |-> "E", MESSAGE |-> "User does not exist"] >>,
    << [TYPE |-> "W", MESSAGE |-> "check"], [TYPE |-> "A", MESSAGE |-> ""] >> }

\* The values of resp.get("GENERATED_PASSWORD")
GeneratedPasswords == {None, "", "Init1234"}

\* The exceptions an RFC call may raise: those of the tuple of line 235 and
\* one that is not in it.
SapErrors == {"CommunicationError", "LogonError", "ABAPApplicationError",
              "ABAPRuntimeError"}
RfcErrors == {"CommunicationError", "ABAPApplicationError", "TypeError"}

\* has_error with the test of line 190 for type E alone.
HasErrorOnlyE(messages) ==
  \E i \in 1..Len(messages) : Get(messages[i], "TYPE") = "E"

\* line 190
HasError(messages) ==
  \E i \in 1..Len(messages) : Get(messages[i], "TYPE") \in {"E", "A"}

\* lines 205-206
ErrorText(messages) ==
  LET errs == SelectSeq(messages, LAMBDA m : Get(m, "TYPE") \in {"E", "A"})
      err_texts == [i \in 1..Len(errs) |-> GetOr(errs[i], "MESSAGE", "")]
      joined == JoinWith("; ", SelectSeq(err_texts, LAMBDA t : t # ""))
  IN  IF joined # "" THEN joined ELSE "SAP error during password reset."

\* lines 235-253: the text the handlers store for an exception
HandlerText(e) ==
  IF e \in SapErrors THEN "SAP error: " \o e ELSE "Runtime error: " \o e

\* lines 144-151
NewResult(system_for_pass_reset, sap_username) ==
  [success |-> FALSE, password |-> None, messages |-> << >>, error |-> None,
   system |-> system_for_pass_reset, username |-> sap_username]

NoResp == [RETURN |-> << >>, GENERATED_PASSWORD |-> None]

\* reset_password has not been called.
NotCalled ==
  [pc |-> "idle", unlock_user |-> FALSE, unset |-> {}, sap_handler |-> FALSE,
   resp |-> NoResp, result |-> NewResult(None, None), rfc |-> << >>]

Catalog == <<"reset_SAP_password", "get_SAP_account", "get_infor_about_Evgeniy",
             "create_invoice_in_sap", "create_request_in_SNOW">>

\* _tools_cache is None
NoCatalog == <<None>>

NoMessage == [role |-> "user", content |-> ""]

IdleCall ==
  [pc |-> "idle", session_id |-> None, user_msg |-> NoMessage, max_rounds |-> 0,
   round_idx |-> 0, on_step |-> None, tools |-> NoCatalog, messages |-> << >>,
   tool_calls |-> << >>, tasks |-> << >>, finished |-> << >>,
   final_text |-> None, result |-> None, err |-> None, events |-> << >>,
   model_calls |-> 0, batches |-> 0, serialized |-> << >>,
   summary_reply |-> None]

Init ==
  /\ session = FALSE
  /\ _tools_cache = NoCatalog
  /\ sessions = << >>
  /\ _tool_result_cache = << >>
  /\ call = [p \in Procs |-> IdleCall]
  /\ orphans = {}
  /\ backend_calls = << >>
  /\ succeeded = {}
  /\ turns = 0
  /\ requests = 0
  /\ list_tools_calls = 0
  /\ server_tools = Catalog
  /\ tools_result = NoCatalog
  /\ streams = FALSE
  /\ cleanups = 0
  /\ reset_password = NotCalled

Active(p) == call[p].pc \notin {"idle", "returned", "raised"}
AllIdle == \A p \in Procs : call[p].pc = "idle"

\* The callbacks a caller may give as on_step: none (line 156), one that
\* takes the event and returns, and one that raises when it is invoked.
OnSteps == {None, "records", "raises"}

\* on_step(event), when a callback was given: the events it was invoked
\* with.  No call of on_step is inside a try, so what a callback raises
\* leaves the statement that invoked it.
Emit(c, event) == IF c.on_step # None THEN Append(c.events, event) ELSE c.events
Raises(c) == c.on_step = "raises"

\* _get_session_state that makes a new state for every identifier.
GetSessionStateAlwaysNew(ss, session_id) ==
  [id \in DOMAIN ss \cup {session_id} |->
     IF id = session_id THEN [history |-> << >>, summary |-> "", persisted |-> << >>] ELSE ss[id]]

\* lines 91-94
_get_session_state(ss, session_id) ==
  IF session_id \in DOMAIN ss THEN ss
  ELSE (session_id :> [history |-> << >>, summary |-> "", persisted |-> << >>]) @@ ss

\* get_mcp_tools, lines 74-89: the catalog it returns (and stores), and the
\* number of list_tools queries it sends: none when _tools_cache is set.
get_mcp_tools ==
  IF _tools_cache # NoCatalog
  THEN [tools |-> _tools_cache, queries |-> 0]
  ELSE [tools |-> server_tools, queries |-> 1]

\* lines 214-216 and 261-263: the final event and the return.
Return(c, text) ==
  IF Raises(c)
  THEN [c EXCEPT !.pc = "raised", !.err = "CallbackError",
                 !.events = Emit(c, [type |-> "final", content |-> text])]
  ELSE [c EXCEPT !.pc = "returned", !.result = text,
                 !.events = Emit(c, [type |-> "final", content |-> text])]

\* NeedsSummary with a threshold that is one character too low.
NeedsSummaryOffByOne(history) == JsonDumpsLen(history) >= max_chars - 1

\* lines 102-105 of _summarize_if_needed
NeedsSummary(history) == JsonDumpsLen(history) >= max_chars

\* Persist that appends the reply without the user message.
PersistReplyOnly(c, ss, entry, text) ==
  LET history == ss[c.session_id].history \o <<entry>>
      ss1 == [ss EXCEPT ![c.session_id].history = history,
                        ![c.session_id].persisted = @ \o <<entry>>]
  IN  IF JsonDumpsLen(history) >= max_chars
      THEN [call |-> [c EXCEPT !.pc = "await_summary", !.final_text = text,
                               !.serialized = history],
            sessions |-> ss1]
      ELSE [call |-> Return([c EXCEPT !.final_text = text], text), sessions |-> ss1]

\* lines 211-216 and 259-263: the turn is appended to the history of the
\* session and _summarize_if_needed runs up to its await, if it has one.
Persist(c, ss, entry, text) ==
  LET history == ss[c.session_id].history \o <<c.user_msg, entry>>
      ss1 == [ss EXCEPT ![c.session_id].history = history,
                        ![c.session_id].persisted = @ \o <<c.user_msg, entry>>]
  IN  IF NeedsSummary(history)
      THEN [call |-> [c EXCEPT !.pc = "await_summary", !.final_text = text,
                               !.serialized = history],
            sessions |-> ss1]
      ELSE [call |-> Return([c EXCEPT !.final_text = text], text), sessions |-> ss1]

FallbackEntry == [role |-> "assistant", content |-> fallback]

\* NextRound with a loop that runs one iteration too many.
NextRoundOneMore(c, ss) ==
  IF c.round_idx <= c.max_rounds
  THEN [call |-> [c EXCEPT !.pc = "await_model", !.model_calls = @ + 1],
        sessions |-> ss]
  ELSE Persist(c, ss, FallbackEntry, fallback)

\* line 191: the next iteration of the loop, or the fallback after it.
NextRound(c, ss) ==
  IF c.round_idx < c.max_rounds
  THEN [call |-> [c EXCEPT !.pc = "await_model", !.model_calls = @ + 1],
        sessions |-> ss]
  ELSE Persist(c, ss, FallbackEntry, fallback)

\* lines 182-189
BuildMessages(state, user_msg) ==
  <<system_msg>>
    \o (IF state.summary # ""
        THEN <<[role |-> "system",
                content |-> "Conversation summary:\n" \o state.summary]>>
        ELSE << >>)
    \o LastN(state.history, Window)
    \o <<user_msg>>

\* StartQuery with the session state fetched before the check of line 167.
StartQueryRegistersFirst(p, query, session_id, max_rounds, on_step) ==
  /\ call[p].pc = "idle"
  /\ turns < MaxTurns
  /\ turns' = turns + 1
  /\ LET ss == _get_session_state(sessions, session_id)
         user_msg == [role |-> "user", content |-> query]
         c == [IdleCall EXCEPT !.session_id = session_id,
                               !.user_msg = user_msg,
                               !.max_rounds = max_rounds,
                               !.on_step = on_step,
                               !.tools = get_mcp_tools.tools,
                               !.messages = BuildMessages(ss[session_id], user_msg)]
         r == NextRound(c, ss)
     IN  IF ~session
         THEN /\ call' = [call EXCEPT ![p] = [IdleCall EXCEPT !.pc = "raised",
                                                              !.err = "RuntimeError"]]
              /\ sessions' = ss
         ELSE /\ call' = [call EXCEPT ![p] = r.call]
              /\ sessions' = r.sessions
  /\ UNCHANGED <<session, _tools_cache, list_tools_calls, server_tools, reset_password,
                 tools_result, streams, cleanups, _tool_result_cache, orphans,
                 backend_calls, succeeded, requests>>

\* process_query, lines 167-192: up to the first model call.
StartQuery(p, query, session_id, max_rounds, on_step) ==
  /\ call[p].pc = "idle"
  /\ turns < MaxTurns
  /\ turns' = turns + 1
  /\ IF ~session
     THEN /\ call' = [call EXCEPT ![p] = [IdleCall EXCEPT !.pc = "raised",
                                                          !.err = "RuntimeError"]]
          /\ UNCHANGED <<sessions, _tools_cache, list_tools_calls>>
     ELSE LET ss == _get_session_state(sessions, session_id)
              user_msg == [role |-> "user", content |-> query]
              c == [IdleCall EXCEPT !.session_id = session_id,
                                    !.user_msg = user_msg,
                                    !.max_rounds = max_rounds,
                                    !.on_step = on_step,
                                    !.tools = get_mcp_tools.tools,
                                    !.messages = BuildMessages(ss[session_id], user_msg)]
              r == NextRound(c, ss)
          IN  /\ call' = [call EXCEPT ![p] = r.call]
              /\ sessions' = r.sessions
              /\ _tools_cache' = get_mcp_tools.tools
              /\ list_tools_calls' = list_tools_calls + get_mcp_tools.queries
  /\ UNCHANGED <<session, streams, cleanups, server_tools, reset_password, tools_result,
                 _tool_result_cache, orphans,
                 backend_calls, succeeded, requests>>


\* _assistant_to_dict that leaves the tool requests out of the dict.
AssistantToDictNoCalls(content, tool_calls) ==
  [role |-> "assistant", content |-> OrElse(content, ""), tool_calls |-> << >>]

\* lines 128-147: None for tool_calls is written << >> (the field never
\* holds an empty list).
_assistant_to_dict(content, tool_calls) ==
  [role |-> "assistant",
   content |-> OrElse(content, ""),
   tool_calls |-> [i \in 1..Len(tool_calls) |->
                     [id |-> tool_calls[i].id, type |-> "function",
                      name |-> tool_calls[i].name,
                      arguments |-> OrElse(tool_calls[i].arguments, "{}")]]]

\* The tool requests of a response: the model gives each an identifier of
\* its own, here the round and the position.
ToolCalls(batch, round) ==
  [i \in 1..Len(batch) |->
     [id |-> <<round, i>>, name |-> batch[i].name, arguments |-> batch[i].arguments]]

NewTask == [st |-> "new", key |-> << >>, text |-> None, err |-> None, nth |-> 0]

\* lines 198-218, after the model call of line 192 has returned: the answer
\* is final (persist and return) or a batch of tool requests is handed to
\* asyncio.gather.
ModelReturns(p, content, batch) ==
  /\ call[p].pc = "await_model"
  /\ requests + Len(batch) <= MaxRequests
  /\ requests' = requests + Len(batch)
  /\ LET c == call[p]
         tool_calls == ToolCalls(batch, c.round_idx + 1)
         assistant_dict == _assistant_to_dict(content, tool_calls)
         c1 == [c EXCEPT !.messages = Append(@, assistant_dict),
                         !.events = IF content # None /\ content # ""
                                    THEN Emit(c, [type |-> "plan",
                                                  round |-> c.round_idx + 1,
                                                  message |-> content])
                                    ELSE @]
     IN  IF content # None /\ content # "" /\ Raises(c)
         THEN /\ call' = [call EXCEPT ![p] = [c1 EXCEPT !.pc = "raised",
                                                        !.err = "CallbackError"]]
              /\ UNCHANGED sessions
         ELSE IF tool_calls = << >>
         THEN LET r == Persist(c1, sessions, assistant_dict, OrElse(content, ""))
              IN  /\ call' = [call EXCEPT ![p] = r.call]
                  /\ sessions' = r.sessions
         ELSE /\ call' = [call EXCEPT ![p] =
                            [c1 EXCEPT !.pc = "dispatch",
                                       !.tool_calls = tool_calls,
                                       !.tasks = [i \in 1..Len(tool_calls) |-> NewTask],
                                       !.finished = << >>,
                                       !.batches = @ + 1]]
              /\ UNCHANGED sessions
  /\ UNCHANGED <<session, _tools_cache, list_tools_calls, server_tools, reset_password,
                 tools_result, streams, cleanups, _tool_result_cache, orphans,
                 backend_calls, succeeded, turns>>

\* ModelRaises with the question persisted before the exception leaves
\* process_query.
ModelRaisesPersisted(p) ==
  /\ call[p].pc = "await_model"
  /\ call' = [call EXCEPT ![p].pc = "raised", ![p].err = "ModelError"]
  /\ sessions' = [sessions EXCEPT ![call[p].session_id].history =
                                     Append(@, call[p].user_msg)]
  /\ UNCHANGED <<session, _tools_cache, list_tools_calls, server_tools, reset_password,
                 tools_result, streams, cleanups, _tool_result_cache, orphans,
                 backend_calls, succeeded, turns, requests>>

\* The model call of line 192 raises: process_query raises.
ModelRaises(p) ==
  /\ call[p].pc = "await_model"
  /\ call' = [call EXCEPT ![p].pc = "raised", ![p].err = "ModelError"]
  /\ UNCHANGED <<session, _tools_cache, list_tools_calls, server_tools, reset_password,
                 tools_result, streams, cleanups, sessions, _tool_result_cache,
                 orphans, backend_calls, succeeded, turns, requests>>

Count(f, k) == IF k \in DOMAIN f THEN f[k] ELSE 0

\* FirstPart without the lookup of lines 232-233.
FirstPartNoLookup(tc, cache) ==
  LET args == ParseArgs(tc.arguments)
      e == ArgsError(args)
  IN  IF e # None THEN [NewTask EXCEPT !.st = "raised", !.err = e]
      ELSE [NewTask EXCEPT !.st = "awaiting", !.key = CacheKey(tc.name, args)]

\* run_one, lines 220-235: the part of one task before its await.  A hit
\* of the cache finishes the task; a miss leaves it awaiting call_tool.
FirstPart(tc, cache) ==
  LET args == ParseArgs(tc.arguments)
      e == ArgsError(args)
      cache_key == CacheKey(tc.name, args)
  IN  IF e # None THEN [NewTask EXCEPT !.st = "raised", !.err = e]
      ELSE IF cache_key \in DOMAIN cache
      THEN [NewTask EXCEPT !.st = "done", !.key = cache_key, !.text = cache[cache_key]]
      ELSE [NewTask EXCEPT !.st = "awaiting", !.key = cache_key]

\* The events of the first part of one task: lines 227-228 and 244-245.
FirstEvents(tc, task) ==
  <<[type |-> "tool_call", name |-> tc.name, args |-> ParseArgs(tc.arguments)]>>
    \o (IF task.st = "done"
        THEN <<[type |-> "tool_result", name |-> tc.name, result |-> task.text]>>
        ELSE << >>)

RECURSIVE FlatEvents(_, _)
FlatEvents(tool_calls, tasks) ==
  IF tool_calls = << >> THEN << >>
  ELSE FirstEvents(Head(tool_calls), Head(tasks))
         \o FlatEvents(Tail(tool_calls), Tail(tasks))

\* The tasks, from the i-th on, that ended in their first part, in the
\* order in which they ran.
RECURSIVE EndedFrom(_, _)
EndedFrom(tasks, i) ==
  IF i > Len(tasks) THEN << >>
  ELSE (IF tasks[i].st # "awaiting" THEN <<i>> ELSE << >>) \o EndedFrom(tasks, i + 1)

\* line 254: asyncio.gather makes one task per request; the loop runs each
\* of them to its first await, in the order of the requests, before any
\* call_tool can return.  No first part writes the cache.
DispatchTasks(p) ==
  /\ call[p].pc = "dispatch"
  /\ LET c == call[p]
         n == Len(c.tool_calls)
         first == [i \in 1..n |->
                     IF Raises(c)
                     THEN [NewTask EXCEPT !.st = "raised", !.err = "CallbackError"]
                     ELSE FirstPart(c.tool_calls[i], _tool_result_cache)]
         \* the number of this invocation among those of its key
         Nth(i) == Count(backend_calls, first[i].key)
                     + Cardinality({j \in 1..i : first[j].st = "awaiting"
                                                 /\ first[j].key = first[i].key})
         tasks == [i \in 1..n |->
                     IF first[i].st = "awaiting"
                     THEN [first[i] EXCEPT !.nth = Nth(i)] ELSE first[i]]
         keys == {tasks[i].key : i \in {j \in 1..n : tasks[j].st = "awaiting"}}
     IN  /\ call' = [call EXCEPT ![p] =
                       [c EXCEPT !.pc = "gather",
                                 !.tasks = tasks,
                                 !.finished = EndedFrom(tasks, 1),
                                 !.events = IF c.on_step # None
                                            THEN @ \o FlatEvents(c.tool_calls, tasks)
                                            ELSE @]]
         /\ backend_calls' =
              [k \in DOMAIN backend_calls \cup keys |->
                 Count(backend_calls, k)
                   + Cardinality({i \in 1..n : tasks[i].st = "awaiting"
                                               /\ tasks[i].key = k})]
  /\ UNCHANGED <<session, _tools_cache, list_tools_calls, server_tools, reset_password,
                 tools_result, streams, cleanups, sessions, _tool_result_cache, orphans,
                 succeeded, turns, requests>>

\* lines 236-252: call_tool returns to task i, which stores the text in the
\* cache and ends with its tool message.
TaskReturns(p, i) ==
  /\ call[p].pc = "gather"
  /\ i \in 1..Len(call[p].tasks)
  /\ call[p].tasks[i].st = "awaiting"
  /\ LET c == call[p]
         cache_key == c.tasks[i].key
         tool_text == ToolText(CallTool(cache_key[1], cache_key[2]))
     IN  /\ _tool_result_cache' = (cache_key :> tool_text) @@ _tool_result_cache
         /\ succeeded' = succeeded \cup {<<cache_key, tool_text>>}
         /\ call' = [call EXCEPT ![p] =
                       [c EXCEPT !.tasks[i].st = "done",
                                 !.tasks[i].text = tool_text,
                                 !.finished = Append(@, i),
                                 !.events = Emit(c, [type |-> "tool_result",
                                                     name |-> c.tool_calls[i].name,
                                                     result |-> tool_text])]]
  /\ UNCHANGED <<session, _tools_cache, list_tools_calls, server_tools, reset_password,
                 tools_result, streams, cleanups, sessions, orphans, backend_calls, turns, requests>>

\* TaskRaises with a handler that stores the error text in the cache.
TaskRaisesCached(p, i) ==
  /\ call[p].pc = "gather"
  /\ i \in 1..Len(call[p].tasks)
  /\ call[p].tasks[i].st = "awaiting"
  /\ _tool_result_cache' = (call[p].tasks[i].key :> "Error: call_tool failed") @@ _tool_result_cache
  /\ call' = [call EXCEPT ![p].tasks[i].st = "raised",
                          ![p].tasks[i].err = "ToolError",
                          ![p].finished = Append(@, i)]
  /\ UNCHANGED <<session, _tools_cache, list_tools_calls, server_tools, reset_password,
                 tools_result, streams, cleanups, sessions, orphans,
                 backend_calls, succeeded, turns, requests>>

\* line 235: call_tool raises in task i; run_one has no handler, so the
\* task ends with the exception and the cache is not written.
TaskRaises(p, i) ==
  /\ call[p].pc = "gather"
  /\ i \in 1..Len(call[p].tasks)
  /\ call[p].tasks[i].st = "awaiting"
  /\ call' = [call EXCEPT ![p].tasks[i].st = "raised",
                          ![p].tasks[i].err = "ToolError",
                          ![p].finished = Append(@, i)]
  /\ UNCHANGED <<session, _tools_cache, list_tools_calls, server_tools, reset_password,
                 tools_result, streams, cleanups, sessions, _tool_result_cache, orphans,
                 backend_calls, succeeded, turns, requests>>


\* lines 248-252: the tool message of task i.
ToolMessage(c, i) ==
  [role |-> "tool", tool_call_id |-> c.tool_calls[i].id, content |-> c.tasks[i].text]

\* GatherResults in the order in which the tasks ended.
GatherResultsAsCompleted(c) ==
  [k \in 1..Len(c.finished) |-> ToolMessage(c, c.finished[k])]

\* line 254: gather returns the results of the tasks in the order in which
\* the tasks were given to it.
GatherResults(c) == [i \in 1..Len(c.tasks) |-> ToolMessage(c, i)]

\* GatherReturns with a loop that does not count its rounds.
GatherReturnsUncounted(p) ==
  /\ call[p].pc = "gather"
  /\ \A i \in 1..Len(call[p].tasks) : call[p].tasks[i].st = "done"
  /\ LET c == call[p]
         c1 == [c EXCEPT !.messages = @ \o GatherResults(c)]
         r == NextRound(c1, sessions)
     IN  /\ call' = [call EXCEPT ![p] = r.call]
         /\ sessions' = r.sessions
  /\ UNCHANGED <<session, _tools_cache, list_tools_calls, server_tools, reset_password,
                 tools_result, streams, cleanups, _tool_result_cache, orphans,
                 backend_calls, succeeded, turns, requests>>

\* lines 254-255 and the next iteration of line 191: every task has ended
\* with a message; the messages are appended and the next round starts, or
\* the rounds are used up and the fallback is persisted and returned.
GatherReturns(p) ==
  /\ call[p].pc = "gather"
  /\ \A i \in 1..Len(call[p].tasks) : call[p].tasks[i].st = "done"
  /\ LET c == call[p]
         c1 == [c EXCEPT !.messages = @ \o GatherResults(c),
                         !.round_idx = @ + 1]
         r == NextRound(c1, sessions)
     IN  /\ call' = [call EXCEPT ![p] = r.call]
         /\ sessions' = r.sessions
  /\ UNCHANGED <<session, _tools_cache, list_tools_calls, server_tools, reset_password,
                 tools_result, streams, cleanups, _tool_result_cache, orphans,
                 backend_calls, succeeded, turns, requests>>

\* The first task that ended with an exception.
RECURSIVE FirstRaised(_, _)
FirstRaised(tasks, finished) ==
  IF tasks[Head(finished)].st = "raised" THEN Head(finished)
  ELSE FirstRaised(tasks, Tail(finished))

\* line 254: a task has raised; gather hands its exception to process_query
\* at once, which has no handler and raises it to its caller.  The tasks
\* still awaiting call_tool are not cancelled.
GatherRaises(p) ==
  /\ call[p].pc = "gather"
  /\ \E i \in 1..Len(call[p].tasks) : call[p].tasks[i].st = "raised"
  /\ LET c == call[p]
         i == FirstRaised(c.tasks, c.finished)
         left == {j \in 1..Len(c.tasks) : c.tasks[j].st = "awaiting"}
     IN  /\ call' = [call EXCEPT ![p].pc = "raised", ![p].err = c.tasks[i].err]
         /\ orphans' = orphans \cup {[key |-> c.tasks[j].key, nth |-> c.tasks[j].nth] : j \in left}
  /\ UNCHANGED <<session, _tools_cache, list_tools_calls, server_tools, reset_password,
                 tools_result, streams, cleanups, sessions, _tool_result_cache,
                 backend_calls, succeeded, turns, requests>>

\* lines 236-242 in a task whose process_query has raised: call_tool
\* returns and the text is stored in the cache.
OrphanReturns(o) ==
  /\ o \in orphans
  /\ orphans' = orphans \ {o}
  /\ LET tool_text == ToolText(CallTool(o.key[1], o.key[2]))
     IN  /\ _tool_result_cache' = (o.key :> tool_text) @@ _tool_result_cache
         /\ succeeded' = succeeded \cup {<<o.key, tool_text>>}
  /\ UNCHANGED <<session, _tools_cache, list_tools_calls, server_tools, reset_password,
                 tools_result, streams, cleanups, sessions, call, backend_calls, turns, requests>>

\* line 235 in a task whose process_query has raised: call_tool raises.
OrphanRaises(o) ==
  /\ o \in orphans
  /\ orphans' = orphans \ {o}
  /\ UNCHANGED <<session, _tools_cache, list_tools_calls, server_tools, reset_password,
                 tools_result, streams, cleanups, sessions, _tool_result_cache, call,
                 backend_calls, succeeded, turns, requests>>

\* Compact that keeps the head of the history instead of its tail.
CompactKeepHead(state, summary) ==
  [state EXCEPT !.summary = summary,
                !.history = SubSeq(@, 1, Min(KeepTail, Len(@)))]

\* Compact with a tail of an odd number of entries.
CompactOddTail(state, summary) ==
  [state EXCEPT !.summary = summary, !.history = LastN(@, KeepTail - 1)]

\* lines 123-126
Compact(state, summary) ==
  [state EXCEPT !.summary = summary, !.history = LastN(@, KeepTail)]

\* lines 116-126, then 214-216 or 261-263: the summarization call returns.
SummaryReturns(p, content) ==
  /\ call[p].pc = "await_summary"
  /\ LET c == call[p]
         summary == OrElse(content, "")
     IN  /\ sessions' = [sessions EXCEPT ![c.session_id] = Compact(@, summary)]
         /\ call' = [call EXCEPT ![p] =
                       Return([c EXCEPT !.summary_reply = content], c.final_text)]
  /\ UNCHANGED <<session, _tools_cache, list_tools_calls, server_tools, reset_password,
                 tools_result, streams, cleanups, _tool_result_cache, orphans,
                 backend_calls, succeeded, turns, requests>>

\* line 116: the summarization call raises; neither _summarize_if_needed
\* nor process_query handles it.
SummaryRaises(p) ==
  /\ call[p].pc = "await_summary"
  /\ call' = [call EXCEPT ![p].pc = "raised", ![p].err = "SummaryError"]
  /\ UNCHANGED <<session, _tools_cache, list_tools_calls, server_tools, reset_password,
                 tools_result, streams, cleanups, sessions, _tool_result_cache, orphans,
                 backend_calls, succeeded, turns, requests>>

\* The caller has the result, or the exception, of process_query.
Finish(p) ==
  /\ call[p].pc \in {"returned", "raised"}
  /\ call' = [call EXCEPT ![p] = IdleCall]
  /\ UNCHANGED <<session, _tools_cache, list_tools_calls, server_tools, reset_password,
                 tools_result, streams, cleanups, sessions, _tool_result_cache, orphans,
                 backend_calls, succeeded, turns, requests>>

\* lines 46-72: the transport and the session are opened, the session is
\* initialized, list_tools is queried for the printed list (line 67), and
\* get_mcp_tools is called (line 72), which queries list_tools again when
\* _tools_cache is not set.
connect_to_server ==
  /\ session' = TRUE
  /\ streams' = TRUE
  /\ cleanups' = 0
  /\ _tools_cache' = get_mcp_tools.tools
  /\ list_tools_calls' = 1 + get_mcp_tools.queries
  /\ tools_result' = server_tools
  /\ UNCHANGED <<server_tools, reset_password, sessions, _tool_result_cache, call, orphans, backend_calls,
                 succeeded, turns, requests>>

\* cleanup with the assignments of lines 272-274 after the close instead of
\* in a finally: they are skipped when the close raises.
CleanupWithoutFinally(close_fails) ==
  /\ cleanups < MaxCleanups
  /\ close_fails => streams
  /\ cleanups' = cleanups + 1
  /\ session' = IF close_fails THEN session ELSE FALSE
  /\ streams' = IF close_fails THEN streams ELSE FALSE
  /\ UNCHANGED <<_tools_cache, list_tools_calls, server_tools, reset_password,
                 tools_result, sessions, _tool_result_cache,
                 call, orphans, backend_calls, succeeded, turns, requests>>

\* lines 265-274: exit_stack.aclose() closes the contexts the stack holds,
\* and may raise only when it holds one (close_fails); the finally of line
\* 271 clears the session and the stream handles either way.
cleanup(close_fails) ==
  /\ cleanups < MaxCleanups
  /\ close_fails => streams
  /\ cleanups' = cleanups + 1
  /\ session' = FALSE
  /\ streams' = FALSE
  /\ UNCHANGED <<_tools_cache, list_tools_calls, server_tools, reset_password,
                 tools_result, sessions, _tool_result_cache,
                 call, orphans, backend_calls, succeeded, turns, requests>>

(***************************************************************************)
(* The server's catalog grows by one tool: server.py is restarted with one  *)
(* more @mcp.tool() function.                                              *)
(***************************************************************************)
AddedTool == "added_tool"

ServerAddsTool ==
  /\ server_tools = Catalog
  /\ server_tools' = Append(Catalog, AddedTool)
  /\ UNCHANGED <<session, _tools_cache, sessions, _tool_result_cache, call,
                 orphans, backend_calls, succeeded, turns, requests,
                 list_tools_calls, streams, cleanups, tools_result,
                 reset_password>>

(***************************************************************************)
(* Spec: one caller that awaits each process_query before the next call,   *)
(* as ui_app.py and _debug_run do (loop.run_until_complete per query).     *)
(***************************************************************************)
Callers == {"p1"}

\* Session identifiers are interchangeable: a caller that needs a new one
\* takes the first that is not registered.
UsableSessionIds ==
  {SessionOrder[i] : i \in {j \in 1..Len(SessionOrder) :
                              \A k \in 1..(j - 1) : SessionOrder[k] \in DOMAIN sessions}}

Next ==
  \/ \E p \in Callers, query \in Queries, session_id \in UsableSessionIds,
        max_rounds \in 0..MaxRoundsArg, on_step \in OnSteps :
       StartQuery(p, query, session_id, max_rounds, on_step)
  \/ \E p \in Callers, content \in Contents, batch \in Batches :
       ModelReturns(p, content, batch)
  \/ \E p \in Callers : ModelRaises(p)
  \/ \E p \in Callers : DispatchTasks(p)
  \/ \E p \in Callers, i \in 1..MaxBatch : TaskReturns(p, i)
  \/ \E p \in Callers, i \in 1..MaxBatch : TaskRaises(p, i)
  \/ \E p \in Callers : GatherReturns(p)
  \/ \E p \in Callers : GatherRaises(p)
  \/ \E o \in orphans : OrphanReturns(o)
  \/ \E o \in orphans : OrphanRaises(o)
  \/ \E p \in Callers, content \in SummaryContents : SummaryReturns(p, content)
  \/ \E p \in Callers : SummaryRaises(p)
  \/ \E p \in Callers : Finish(p)
  \/ AllIdle /\ ~session /\ connect_to_server
  \/ \E close_fails \in BOOLEAN : AllIdle /\ cleanup(close_fails)

Spec == Init /\ [][Next]_vars


(***************************************************************************)
(* LiveSpec: one call of process_query under the scheduling of the event   *)
(* loop.  A coroutine that can run is run, and every call to the chat      *)
(* model or to the tool server ends, by returning or by raising.           *)
(***************************************************************************)
Progress(p) ==
  \/ \E content \in Contents, batch \in Batches : ModelReturns(p, content, batch)
  \/ ModelRaises(p)
  \/ DispatchTasks(p)
  \/ \E i \in 1..MaxBatch : TaskReturns(p, i) \/ TaskRaises(p, i)
  \/ GatherReturns(p)
  \/ GatherRaises(p)
  \/ \E content \in SummaryContents : SummaryReturns(p, content)
  \/ SummaryRaises(p)

\* The state after construction, with one call of process_query left.
InitLive ==
  /\ session = FALSE
  /\ _tools_cache = NoCatalog
  /\ sessions = << >>
  /\ _tool_result_cache = << >>
  /\ call = [p \in Procs |-> IdleCall]
  /\ orphans = {}
  /\ backend_calls = << >>
  /\ succeeded = {}
  /\ turns = MaxTurns - 1
  /\ requests = 0
  /\ list_tools_calls = 0
  /\ server_tools = Catalog
  /\ tools_result = NoCatalog
  /\ streams = FALSE
  /\ cleanups = 0
  /\ reset_password = NotCalled

LiveSpec == InitLive /\ [][Next]_vars /\ \A p \in Callers : WF_vars(Progress(p))

(***************************************************************************)
(* SpecCompact: the last turn of a session that already has a history.     *)
(* Any sequence of (user, assistant) pairs is a history the program can    *)
(* have: a turn appends one pair, and a failed summarization leaves the    *)
(* history as long as it was.  The turn is answered at once or falls back, *)
(* so that _summarize_if_needed runs on every such history.                *)
(***************************************************************************)
Pairs ==
  { <<[role |-> "user", content |-> q], a>> :
      q \in Queries,
      a \in {_assistant_to_dict("ok", << >>), FallbackEntry} }

RECURSIVE Flatten(_)
Flatten(pairs) ==
  IF pairs = << >> THEN << >> ELSE Head(pairs) \o Flatten(Tail(pairs))

Histories == { Flatten(ps) : ps \in UNION { [1..n -> Pairs] : n \in 0..MaxPairs } }

InitCompact ==
  /\ session = TRUE
  /\ _tools_cache = Catalog
  /\ \E history \in Histories, summary \in {"", "an older brief"} :
       sessions = ("s1" :> [history |-> history, summary |-> summary,
                            persisted |-> history])
  /\ _tool_result_cache = << >>
  /\ call = [p \in Procs |-> IdleCall]
  /\ orphans = {}
  /\ backend_calls = << >>
  /\ succeeded = {}
  /\ turns = MaxTurns - 1
  /\ requests = 0
  /\ list_tools_calls = 2
  /\ server_tools = Catalog
  /\ tools_result = Catalog
  /\ streams = TRUE
  /\ cleanups = 0
  /\ reset_password = NotCalled

NextCompact ==
  \/ \E p \in Callers, query \in Queries \cup {EdgeText, NearText},
        max_rounds \in 0..1, on_step \in OnSteps :
       StartQuery(p, query, "s1", max_rounds, on_step)
  \/ \E p \in Callers, content \in Contents : ModelReturns(p, content, << >>)
  \/ \E p \in Callers, content \in SummaryContents : SummaryReturns(p, content)
  \/ \E p \in Callers : SummaryRaises(p)

SpecCompact == InitCompact /\ [][NextCompact]_vars


(***************************************************************************)
(* SpecSession: a session that goes on for MaxTurns turns from a history   *)
(* it already has, each turn answered at once or by the fallback, so that  *)
(* the Compactor can run more than once on the same session.               *)
(***************************************************************************)
SessionHistories ==
  { Flatten(ps) : ps \in UNION { [1..n -> Pairs] : n \in (MaxPairs - 1)..MaxPairs } }

InitSession ==
  /\ session = TRUE
  /\ _tools_cache = Catalog
  /\ \E history \in SessionHistories :
       sessions = ("s1" :> [history |-> history, summary |-> "",
                            persisted |-> history])
  /\ _tool_result_cache = << >>
  /\ call = [p \in Procs |-> IdleCall]
  /\ orphans = {}
  /\ backend_calls = << >>
  /\ succeeded = {}
  /\ turns = 0
  /\ requests = 0
  /\ list_tools_calls = 2
  /\ server_tools = Catalog
  /\ tools_result = Catalog
  /\ streams = TRUE
  /\ cleanups = 0
  /\ reset_password = NotCalled

NextSession ==
  \/ \E p \in Callers, query \in Queries, max_rounds \in 0..1, on_step \in OnSteps :
       StartQuery(p, query, "s1", max_rounds, on_step)
  \/ \E p \in Callers, content \in Contents : ModelReturns(p, content, << >>)
  \/ \E p \in Callers, content \in SummaryContents : SummaryReturns(p, content)
  \/ \E p \in Callers : SummaryRaises(p)
  \/ \E p \in Callers : Finish(p)

SpecSession == InitSession /\ [][NextSession]_vars


(***************************************************************************)
(* SpecOverlap: two process_query calls on one session that may overlap,   *)
(* as two tasks of one event loop do: each runs from one await to the next *)
(* without interruption, and at an await the other may run.                *)
(***************************************************************************)
OverlapHistories ==
  {<< >>} \cup { Flatten([i \in 1..(MaxPairs - 1) |-> pair]) : pair \in Pairs }

InitOverlap ==
  /\ session = TRUE
  /\ _tools_cache = Catalog
  /\ \E history \in OverlapHistories :
       sessions = ("s1" :> [history |-> history, summary |-> "",
                            persisted |-> history])
  /\ _tool_result_cache = << >>
  /\ call = [p \in Procs |-> IdleCall]
  /\ orphans = {}
  /\ backend_calls = << >>
  /\ succeeded = {}
  /\ turns = 0
  /\ requests = 0
  /\ list_tools_calls = 2
  /\ server_tools = Catalog
  /\ tools_result = Catalog
  /\ streams = TRUE
  /\ cleanups = 0
  /\ reset_password = NotCalled

\* Responses with at most one tool request.
SmallBatches == { batch \in Batches : Len(batch) <= 1 }

NextOverlap ==
  \/ \E p \in Procs, query \in Queries, max_rounds \in 0..1, on_step \in OnSteps :
       StartQuery(p, query, "s1", max_rounds, on_step)
  \/ \E p \in Procs, content \in Contents, batch \in SmallBatches :
       ModelReturns(p, content, batch)
  \/ \E p \in Procs : ModelRaises(p)
  \/ \E p \in Procs : DispatchTasks(p)
  \/ \E p \in Procs : TaskReturns(p, 1)
  \/ \E p \in Procs : TaskRaises(p, 1)
  \/ \E p \in Procs : GatherReturns(p)
  \/ \E p \in Procs : GatherRaises(p)
  \/ \E p \in Procs, content \in SummaryContents : SummaryReturns(p, content)
  \/ \E p \in Procs : SummaryRaises(p)
  \/ \E p \in Procs : Finish(p)

SpecOverlap == InitOverlap /\ [][NextOverlap]_vars


(***************************************************************************)
(* SpecReconnect: the client connects, is cleaned up and connects again    *)
(* while the server's catalog may grow; between connections the caller     *)
(* asks short questions that are answered at once or by the fallback.      *)
(***************************************************************************)
NextReconnect ==
  \/ AllIdle /\ ~session /\ connect_to_server
  \/ \E close_fails \in BOOLEAN : AllIdle /\ cleanup(close_fails)
  \/ ServerAddsTool
  \/ \E p \in Callers, session_id \in UsableSessionIds, max_rounds \in 0..1,
        on_step \in OnSteps :
       StartQuery(p, "hi", session_id, max_rounds, on_step)
  \/ \E p \in Callers, content \in Contents : ModelReturns(p, content, << >>)
  \/ \E p \in Callers : ModelRaises(p)
  \/ \E p \in Callers : Finish(p)

SpecReconnect == Init /\ [][NextReconnect]_vars


(***************************************************************************)
(* SpecReset: one call of reset_password.  Every call on the connection    *)
(* may return or raise; the calls the function has made are kept in rfc.   *)
(***************************************************************************)
client_vars ==
  <<session, _tools_cache, sessions, _tool_result_cache, call, orphans,
    backend_calls, succeeded, turns, requests, list_tools_calls, streams,
    cleanups, server_tools, tools_result>>

Called(r, fn, raised) == Append(r.rfc, [fn |-> fn, raised |-> raised])

\* lines 144-164
ValidateConfig ==
  /\ reset_password.pc = "validate"
  /\ LET r == reset_password
         sid == r.result.system
         missing == Missing(r.unset)
     IN  reset_password' =
           IF sid \notin SAP_SYSTEM_DICT
           THEN [r EXCEPT !.pc = "returned",
                          !.result.error = "Unknown system SID: " \o sid]
           ELSE IF missing # << >>
           THEN [r EXCEPT !.pc = "returned",
                          !.result.error = "Missing SAP connection params: "
                                             \o JoinWith(", ", missing)]
           ELSE [r EXCEPT !.pc = "open"]
  /\ UNCHANGED client_vars

\* lines 169-175, with lines 26-45: the constructor returns, or raises an
\* Exception made from the one of pyrfc, which the handler of line 245
\* takes; sap_handler is still None there, so no rollback and no close is
\* called (lines 248-252 and 256-260).
SAPUserHandler(raised) ==
  /\ reset_password.pc = "open"
  /\ reset_password' =
       IF raised = None
       THEN [reset_password EXCEPT !.pc = "change", !.sap_handler = TRUE]
       ELSE [reset_password EXCEPT !.pc = "returned",
                                   !.result.error = HandlerText(raised)]
  /\ UNCHANGED client_vars

\* lines 178-196 and 211-212: the call returns resp or raises.
BAPI_USER_CHANGE(resp, raised) ==
  /\ reset_password.pc = "change"
  /\ LET r == [reset_password EXCEPT
                 !.rfc = Called(reset_password, "BAPI_USER_CHANGE", raised # None)]
         messages == resp.RETURN
         generated_password == resp.GENERATED_PASSWORD
     IN  reset_password' =
           IF raised # None
           THEN [r EXCEPT !.pc = "rollback", !.result.error = HandlerText(raised)]
           ELSE IF HasError(messages) \/ generated_password \in {None, ""}
           THEN [r EXCEPT !.pc = "rollback", !.resp = resp,
                          !.result.messages = messages]
           ELSE [r EXCEPT !.pc = IF r.unlock_user THEN "unlock" ELSE "commit",
                          !.resp = resp, !.result.messages = messages]
  /\ UNCHANGED client_vars

\* line 199 with lines 203-209, and lines 238-243 or 248-253: the rollback
\* is called and what it raises is dropped; after line 199 the error text
\* is stored.
BAPI_TRANSACTION_ROLLBACK(raised) ==
  /\ reset_password.pc = "rollback"
  /\ LET r == [reset_password EXCEPT
                 !.pc = "close",
                 !.rfc = Called(reset_password, "BAPI_TRANSACTION_ROLLBACK", raised)]
     IN  reset_password' =
           IF r.result.error # None THEN r
           ELSE IF HasError(r.resp.RETURN)
           THEN [r EXCEPT !.result.error = ErrorText(r.resp.RETURN)]
           ELSE [r EXCEPT !.result.error = "Password generation failed."]
  /\ UNCHANGED client_vars

\* lines 212-225
BAPI_USER_UNLOCK(unlock_msgs, raised) ==
  /\ reset_password.pc = "unlock"
  /\ reset_password' =
       [reset_password EXCEPT
          !.pc = "commit",
          !.rfc = Called(reset_password, "BAPI_USER_UNLOCK", raised # None),
          !.result.messages =
             IF raised = None THEN @ \o unlock_msgs
             ELSE Append(@, [TYPE |-> "W", ID |-> "PY", NUMBER |-> "000",
                             MESSAGE |-> "Unlock step failed: " \o raised])]
  /\ UNCHANGED client_vars

\* lines 228-233: the commit returns and the result is a success, or it
\* raises and a handler of lines 235-253 takes the exception.
BAPI_TRANSACTION_COMMIT(raised) ==
  /\ reset_password.pc = "commit"
  /\ LET r == [reset_password EXCEPT
                 !.rfc = Called(reset_password, "BAPI_TRANSACTION_COMMIT",
                                raised # None)]
     IN  reset_password' =
           IF raised = None
           THEN [r EXCEPT !.pc = "close", !.result.success = TRUE,
                          !.result.password = r.resp.GENERATED_PASSWORD]
           ELSE [r EXCEPT !.pc = "rollback", !.result.error = HandlerText(raised)]
  /\ UNCHANGED client_vars

\* lines 255-260: the finally closes the connection, and what close raises
\* is dropped; then the result is returned.
CloseConnection(raised) ==
  /\ reset_password.pc = "close"
  /\ reset_password' =
       [reset_password EXCEPT !.pc = "returned",
                              !.rfc = Called(reset_password, "close", raised)]
  /\ UNCHANGED client_vars

InitReset ==
  /\ session = FALSE
  /\ _tools_cache = NoCatalog
  /\ sessions = << >>
  /\ _tool_result_cache = << >>
  /\ call = [p \in Procs |-> IdleCall]
  /\ orphans = {}
  /\ backend_calls = << >>
  /\ succeeded = {}
  /\ turns = 0
  /\ requests = 0
  /\ list_tools_calls = 0
  /\ server_tools = Catalog
  /\ tools_result = NoCatalog
  /\ streams = FALSE
  /\ cleanups = 0
  /\ \E system_for_pass_reset \in Systems, unset \in UnsetParams,
        unlock_user \in BOOLEAN :
       reset_password =
         [NotCalled EXCEPT !.pc = "validate", !.unlock_user = unlock_user,
                           !.unset = unset,
                           !.result = NewResult(system_for_pass_reset, "SHUBENKOVV")]

NextReset ==
  \/ ValidateConfig
  \/ \E raised \in {None, "Logon failed", "Communication error"} :
       SAPUserHandler(raised)
  \/ \E messages \in ReturnTables, generated_password \in GeneratedPasswords :
       BAPI_USER_CHANGE([RETURN |-> messages,
                         GENERATED_PASSWORD |-> generated_password], None)
  \/ \E raised \in RfcErrors : BAPI_USER_CHANGE(NoResp, raised)
  \/ \E raised \in BOOLEAN : BAPI_TRANSACTION_ROLLBACK(raised)
  \/ \E unlock_msgs \in ReturnTables, raised \in {None} \cup RfcErrors :
       BAPI_USER_UNLOCK(unlock_msgs, raised)
  \/ \E raised \in {None} \cup RfcErrors : BAPI_TRANSACTION_COMMIT(raised)
  \/ \E raised \in BOOLEAN : CloseConnection(raised)

SpecReset == InitReset /\ [][NextReset]_vars


(***************************************************************************)
(* The claims.                                                             *)
(***************************************************************************)
HasToolCalls(m) ==
  m.role = "assistant" /\ "tool_calls" \in DOMAIN m /\ m.tool_calls # << >>

\* The text the tool server gives for a request.
RequestText(tc) ==
  ToolText(CallTool(tc.name, CacheKey(tc.name, ParseArgs(tc.arguments))[2]))

Unparsable(arguments) == ~JsonLoads(OrElse(arguments, "{}")).ok

\* C1: call_tool is invoked at most once for every cache key.
C1_AtMostOnce == \A k \in DOMAIN backend_calls : backend_calls[k] <= 1

\* C2: in the message sequence of every call, the tool requests r1..rn of
\* an assistant message that has been answered are followed by exactly n
\* tool messages, the i-th with the identifier and the result text of ri,
\* whatever the order in which the calls ended and whether they hit the
\* cache or not.
C2_RequestOrder ==
  \A p \in Procs :
    LET msgs == call[p].messages
    IN  \A a \in 1..Len(msgs) :
          (HasToolCalls(msgs[a]) /\ a < Len(msgs)) =>
            LET tcs == msgs[a].tool_calls
                n == Len(tcs)
            IN  /\ a + n <= Len(msgs)
                /\ \A i \in 1..n :
                     /\ msgs[a + i].role = "tool"
                     /\ msgs[a + i].tool_call_id = tcs[i].id
                     /\ msgs[a + i].content = RequestText(tcs[i])
                /\ a + n < Len(msgs) => msgs[a + n + 1].role # "tool"

\* A batch of two whose calls ended in the reverse order has been joined.
C2_Witness ==
  \E p \in Procs :
    /\ call[p].pc = "await_model"
    /\ call[p].round_idx >= 1
    /\ call[p].finished = <<2, 1>>
    /\ call[p].tasks[1].key # call[p].tasks[2].key
    /\ call[p].messages[Len(call[p].messages)].tool_call_id = call[p].tool_calls[2].id

\* C3: a call_tool that raises does not make process_query raise.
C3_ToolFailureRecovered ==
  \A p \in Procs :
    (\E i \in 1..Len(call[p].tasks) : call[p].tasks[i].err = "ToolError")
      => call[p].pc # "raised"

\* C4: a process_query with a tool session returns a text for every model
\* response, argument text and tool outcome.  The exceptions of a model
\* call, of the summarization (C5) and of a callback (C13) are left aside
\* here: what is stated is that no round of tool requests makes
\* process_query raise.
C4_OnlyNotConnectedRaises ==
  \A p \in Procs :
    call[p].pc = "raised" =>
      call[p].err \in {"RuntimeError", "ModelError", "SummaryError", "CallbackError"}

\* C5: once the final text of the turn exists, process_query does not end
\* by raising: a failed summarization does not suppress the result.
C5_FinalTextDelivered ==
  \A p \in Procs :
    call[p].final_text # None => ~(call[p].pc = "raised" /\ call[p].err = "SummaryError")

\* C6: a call that returns after tool requests in every round has made
\* max_rounds model calls, returns the fallback text, and the history of
\* its session ends with its user message and the fallback message.
C6_FallbackAfterMaxRounds ==
  \A p \in Procs :
    (call[p].pc = "returned" /\ call[p].model_calls = call[p].batches) =>
      /\ call[p].model_calls = call[p].max_rounds
      /\ call[p].result = fallback
      /\ LastN(sessions[call[p].session_id].history, 2)
           = <<call[p].user_msg, FallbackEntry>>

\* Two rounds of tool requests, then the fallback, with the Compactor run.
C6_Witness ==
  \E p \in Procs :
    /\ call[p].pc = "returned"
    /\ call[p].max_rounds = 2
    /\ call[p].batches = 2
    /\ call[p].serialized # << >>

C8_MalformedArguments ==
  \A p \in Procs :
    \A i \in 1..Len(call[p].tasks) :
      (/\ call[p].tasks[i].st # "new"
       /\ call[p].tasks[i].err # "CallbackError"
       /\ Unparsable(call[p].tool_calls[i].arguments)) =>
        /\ call[p].tasks[i].err \in {None, "ToolError"}
        /\ call[p].tasks[i].key = <<call[p].tool_calls[i].name, << >> >>
        /\ (call[p].pc = "await_model" /\ call[p].round_idx >= 1) =>
             LET n == Len(call[p].tasks)
                 m == call[p].messages[Len(call[p].messages) - n + i]
             IN  /\ m.role = "tool"
                 /\ m.tool_call_id = call[p].tool_calls[i].id
                 /\ m.content = ToolText(CallTool(call[p].tool_calls[i].name, << >>))

\* A round with an unparsable request, in second place, has been joined.
C8_Witness ==
  \E p \in Procs :
    /\ call[p].pc = "await_model"
    /\ call[p].round_idx >= 1
    /\ Len(call[p].tasks) = 2
    /\ Unparsable(call[p].tool_calls[2].arguments)
    /\ call[p].messages[Len(call[p].messages)].content
         = "Error executing tool get_SAP_account"

\* C9: every entry of the cache is the text of a call_tool that returned
\* for its key; a key none of whose calls returned has no entry.
C9_ErrorsNotCached ==
  \A k \in DOMAIN _tool_result_cache :
    /\ <<k, _tool_result_cache[k]>> \in succeeded
    /\ _tool_result_cache[k] = ToolText(CallTool(k[1], k[2]))

\* The only call for a key has raised, and an identical request of a later
\* turn invokes the backend again.
C9_Witness ==
  \E p \in Procs :
    /\ turns = 2
    /\ call[p].pc = "gather"
    /\ Len(call[p].tasks) = 1
    /\ \E i \in 1..Len(call[p].tasks) :
         /\ call[p].tasks[i].st = "awaiting"
         /\ call[p].tasks[i].nth = 2
         /\ call[p].tasks[i].key \notin DOMAIN _tool_result_cache
         /\ \A e \in succeeded : e[1] # call[p].tasks[i].key

\* C10: after a summarization that was needed and succeeded, the summary
\* is the text of the reply and the history is the last min(6, n) entries
\* of the history that was serialized.
C10_Compaction ==
  \A p \in Procs :
    (call[p].pc = "returned" /\ call[p].serialized # << >>) =>
      LET state == sessions[call[p].session_id]
          n == Len(call[p].serialized)
      IN  /\ NeedsSummary(call[p].serialized)
          /\ state.summary = OrElse(call[p].summary_reply, "")
          /\ Len(state.history) = Min(KeepTail, n)
          /\ \A i \in 1..Min(KeepTail, n) :
               state.history[i] = call[p].serialized[n - Min(KeepTail, n) + i]

\* A history of ten entries has been cut to its last six and the older
\* summary replaced.
C10_Witness ==
  \E p \in Procs :
    /\ call[p].pc = "returned"
    /\ Len(call[p].serialized) = 10
    /\ Len(sessions[call[p].session_id].history) = 6
    /\ call[p].summary_reply = "brief"
    /\ sessions[call[p].session_id].summary = "brief"

\* The state of a session, registered or not yet.
StateOf(ss, session_id) == _get_session_state(ss, session_id)[session_id]

\* The step of p in which process_query calls _summarize_if_needed: it
\* leaves the model call, the gather or the start of the call and either
\* returns at once or awaits the summarization call.
CallsCompactor(p) ==
  /\ call[p].pc \in {"idle", "await_model", "gather"}
  /\ \/ call'[p].pc \in {"returned", "await_summary"}
     \/ /\ call'[p].pc = "raised"
        /\ call'[p].err = "CallbackError"
        /\ call'[p].events[Len(call'[p].events)].type = "final"

\* The history on entry of _summarize_if_needed in such a step: the history
\* before the step and the two messages of the turn (lines 211 and 259).
EntryHistory(p) ==
  StateOf(sessions, call'[p].session_id).history
    \o <<call'[p].user_msg,
         IF call[p].pc = "await_model"
         THEN call'[p].messages[Len(call'[p].messages)]
         ELSE FallbackEntry>>

\* C11: when _summarize_if_needed is called on a history whose serialized
\* size is below max_chars, no summarization call is made (process_query
\* goes on to its final event in the same step) and the history and the
\* summary of the state are those it had on entry.
C11_BelowThresholdNoOp ==
  [][\A p \in Procs :
       (CallsCompactor(p) /\ JsonDumpsLen(EntryHistory(p)) < max_chars) =>
         /\ call'[p].pc # "await_summary"
         /\ sessions'[call'[p].session_id].history = EntryHistory(p)
         /\ sessions'[call'[p].session_id].summary
              = StateOf(sessions, call'[p].session_id).summary]_vars

\* A turn has returned without compaction on a history of 7999 characters,
\* one below the threshold, with the older summary still in place.
C11_Witness ==
  \E p \in Procs :
    /\ call[p].pc = "returned"
    /\ call[p].serialized = << >>
    /\ JsonDumpsLen(sessions[call[p].session_id].history) = max_chars - 1
    /\ sessions[call[p].session_id].summary = "an older brief"

\* C12: a process_query called while there is no tool session ends in the
\* same step with the RuntimeError of line 168, having made no model call,
\* dispatched no tool request and sent no event, and with the session
\* store, both caches and the backend untouched.
C12_NotConnectedNoEffect ==
  [][\A p \in Procs :
       (call[p].pc = "idle" /\ call'[p].pc # "idle" /\ ~session) =>
         /\ call'[p].pc = "raised"
         /\ call'[p].err = "RuntimeError"
         /\ call'[p].model_calls = 0
         /\ call'[p].batches = 0
         /\ call'[p].tasks = << >>
         /\ call'[p].events = << >>
         /\ UNCHANGED <<session, sessions, _tools_cache, list_tools_calls, server_tools, reset_password,
                 tools_result, streams, cleanups, _tool_result_cache,
                        orphans, backend_calls, succeeded>>]_vars

\* A call made after cleanup, on a client that was connected and served a
\* turn before, has raised.
C12_Witness ==
  \E p \in Procs :
    /\ call[p].pc = "raised"
    /\ call[p].err = "RuntimeError"
    /\ ~session
    /\ _tools_cache = Catalog
    /\ DOMAIN sessions # {}

\* C13: a call with a callback ends as the same call without one.  A call
\* without a callback never ends with an exception of a callback, so no
\* call does.
C13_CallbackObservational ==
  \A p \in Procs : ~(call[p].pc = "raised" /\ call[p].err = "CallbackError")

\* The events of type final that the callback of p was invoked with.
FinalEvents(p) ==
  {k \in 1..Len(call[p].events) : call[p].events[k].type = "final"}

\* C14: when a call with a callback has persisted its turn (final_text is
\* the text of the turn) and has ended, its callback was invoked with
\* exactly one final event, the last event of the call, carrying that text.
C14_FinalEventOnce ==
  \A p \in Procs :
    (/\ call[p].on_step # None
     /\ call[p].final_text # None
     /\ call[p].pc \in {"returned", "raised"}) =>
      /\ FinalEvents(p) = {Len(call[p].events)}
      /\ call[p].events # << >>
      /\ call[p].events[Len(call[p].events)].content = call[p].final_text

\* C15: a request whose key has an entry in the cache, whatever the session
\* of the turn that stored it, is answered with the text of the entry and
\* without a call of the backend: the dispatch count of the key does not
\* change; and once the round is joined, the tool message of the request
\* carries that text.
C15_CrossSessionHit ==
  /\ [][\A p \in Procs :
          (call[p].pc = "dispatch" /\ call'[p].pc = "gather") =>
            \A i \in 1..Len(call'[p].tasks) :
              LET t == call'[p].tasks[i]
              IN  (t.st # "raised" /\ t.key \in DOMAIN _tool_result_cache) =>
                    /\ t.st = "done"
                    /\ t.text = _tool_result_cache[t.key]
                    /\ Count(backend_calls', t.key) = Count(backend_calls, t.key)]_vars
  /\ [](\A p \in Procs :
          (call[p].pc = "await_model" /\ call[p].round_idx >= 1) =>
            \A i \in 1..Len(call[p].tasks) :
              LET n == Len(call[p].tasks)
                  m == call[p].messages[Len(call[p].messages) - n + i]
              IN  /\ m.role = "tool"
                  /\ m.content = call[p].tasks[i].text
                  /\ m.content = _tool_result_cache[call[p].tasks[i].key])

\* A turn in session s2 has been served from the cache the text that a
\* turn in session s1 had stored, with one call of the backend in all.
C15_Witness ==
  \E p \in Procs :
    /\ call[p].session_id = "s2"
    /\ "s1" \in DOMAIN sessions
    /\ sessions["s1"].history # << >>
    /\ call[p].pc = "await_model"
    /\ call[p].round_idx = 1
    /\ Len(call[p].tasks) = 1
    /\ call[p].tasks[1].st = "done"
    /\ call[p].tasks[1].nth = 0
    /\ Count(backend_calls, call[p].tasks[1].key) = 1
    /\ call[p].messages[Len(call[p].messages)].content = "SHUBENKOVV"

\* The step in which a call whose first model response carried no tool
\* request returns: from the model call, or from the summarization call.
ReturnsFirstAnswer(p) ==
  /\ call[p].pc \in {"await_model", "await_summary"}
  /\ call'[p].pc = "returned"
  /\ call'[p].model_calls = 1
  /\ call'[p].batches = 0

\* The history of the session of p when the call started.
HistoryBefore(p) ==
  IF call[p].pc = "await_model"
  THEN sessions[call[p].session_id].history
  ELSE SubSeq(call[p].serialized, 1, Len(call[p].serialized) - 2)

\* The assistant message of the last model response of the call.
LastReply(p) == call'[p].messages[Len(call'[p].messages)]

EmptyState == [history |-> << >>, summary |-> "", persisted |-> << >>]

\* The step in which p starts a call on a client with a tool session, and
\* so calls _get_session_state (line 170).
GetsSessionState(p) ==
  call[p].pc = "idle" /\ call'[p].pc # "idle" /\ session

\* C17: the store only grows; a step changes the state of no session but
\* that of the call that takes the step; _get_session_state leaves the
\* state of a registered identifier as it is (the call then sees that
\* state), and registers an unregistered one with an empty history and an
\* empty summary (the call then builds its messages from the empty state,
\* and with max_rounds = 0 persists its fallback turn in the same step).
C17_StoreGrowsOnly ==
  [][/\ DOMAIN sessions \subseteq DOMAIN sessions'
     /\ \A id \in DOMAIN sessions :
          sessions'[id] # sessions[id] =>
            \E p \in Procs : call'[p] # call[p] /\ call'[p].session_id = id
     /\ \A p \in Procs :
          GetsSessionState(p) =>
            LET c == call'[p]
                id == c.session_id
            IN  /\ id \in DOMAIN sessions'
                /\ DOMAIN sessions' = DOMAIN sessions \cup {id}
                /\ id \in DOMAIN sessions =>
                     /\ c.messages = BuildMessages(sessions[id], c.user_msg)
                     /\ c.max_rounds > 0 => sessions'[id] = sessions[id]
                /\ id \notin DOMAIN sessions =>
                     /\ c.messages = <<system_msg, c.user_msg>>
                     /\ c.max_rounds > 0 => sessions'[id] = EmptyState
                     /\ c.max_rounds = 0 =>
                          /\ sessions'[id].history = <<c.user_msg, FallbackEntry>>
                          /\ sessions'[id].summary = ""]_vars

\* A call has registered s2 with an empty state while s1 keeps the turn it
\* has stored.
C17_Witness ==
  \E p \in Procs :
    /\ call[p].pc = "await_model"
    /\ call[p].session_id = "s2"
    /\ sessions["s2"] = EmptyState
    /\ "s1" \in DOMAIN sessions
    /\ sessions["s1"].history # << >>

\* C18: while a tool session is connected, the list_tools query has been
\* sent to the server at most once since the connection was made.
C18_CatalogQueriedOnce == session => list_tools_calls <= 1

\* C19: after one or more calls of cleanup, whether the close raised or
\* not, the client has no tool session and no stream handle; a call of
\* cleanup on a client already cleaned up changes nothing of the client;
\* and no call of cleanup changes the session store or either cache.
C19_CleanupIdempotent ==
  /\ [](cleanups >= 1 => ~session /\ ~streams)
  /\ [][cleanups' > cleanups =>
          /\ ~session' /\ ~streams'
          /\ UNCHANGED <<sessions, _tool_result_cache, _tools_cache, call, orphans>>
          /\ cleanups >= 1 => UNCHANGED <<session, streams>>]_vars

\* cleanup has been called twice on a client that was connected and had
\* served a turn, whose result is still stored.
C19_Witness ==
  /\ cleanups = 2
  /\ ~session
  /\ ~streams
  /\ DOMAIN sessions # {}
  /\ DOMAIN _tool_result_cache # {}

\* The identifiers of the tool requests that a message carries.
RequestIds(m) ==
  IF HasToolCalls(m) THEN {m.tool_calls[i].id : i \in 1..Len(m.tool_calls)} ELSE {}

\* The positions of the assistant messages before position k.
AssistantsBefore(msgs, k) == {a \in 1..(k - 1) : msgs[a].role = "assistant"}

\* The nearest of them.
NearestAssistant(msgs, k) ==
  CHOOSE a \in AssistantsBefore(msgs, k) : \A b \in AssistantsBefore(msgs, k) : b <= a

\* C20: in the messages of every model call (line 192: the system message,
\* the summary, the window of the history, the user message and the rounds
\* so far), every tool message names a request of the nearest assistant
\* message before it, and every request of an assistant message is
\* answered by exactly one tool message, which stands after it and before
\* the next assistant message.
C20_ToolMessagesPaired ==
  \A p \in Procs :
    call[p].pc = "await_model" =>
      LET msgs == call[p].messages
      IN  /\ \A k \in 1..Len(msgs) :
               msgs[k].role = "tool" =>
                 /\ AssistantsBefore(msgs, k) # {}
                 /\ msgs[k].tool_call_id \in RequestIds(msgs[NearestAssistant(msgs, k)])
          /\ \A a \in 1..Len(msgs) :
               \A id \in RequestIds(msgs[a]) :
                 Cardinality({k \in (a + 1)..Len(msgs) :
                                /\ msgs[k].role = "tool"
                                /\ msgs[k].tool_call_id = id
                                /\ NearestAssistant(msgs, k) = a}) = 1

\* The second model call of a turn that follows a compacted turn: its
\* messages hold the summary, the window of the history and a joined round
\* of two tool messages.
C20_Witness ==
  \E p \in Procs :
    /\ call[p].pc = "await_model"
    /\ call[p].round_idx = 1
    /\ Len(call[p].tasks) = 2
    /\ call[p].messages[2].role = "system"
    /\ call[p].messages[3].role = "user"
    /\ call[p].messages[Len(call[p].messages)].role = "tool"

\* C21: the history given to a summarization call (line 103) is every
\* message persisted in the session so far.
C21_SummaryGivenFullHistory ==
  \A p \in Procs :
    call[p].pc = "await_summary" =>
      call[p].serialized = sessions[call[p].session_id].persisted

\* C22: the catalog a process_query offers the model is the tool list the
\* server reported when the present connection was made (line 67), also
\* after a cleanup and a new connect_to_server.
C22_CatalogOfConnection ==
  \A p \in Procs :
    (call[p].pc # "idle" /\ call[p].err # "RuntimeError") =>
      call[p].tools = tools_result

\* A call that is awaiting the model or a tool batch, or that a model call
\* or a tool call has made raise.
MidTurn(c) ==
  \/ c.pc \in {"await_model", "dispatch", "gather"}
  \/ c.pc = "raised" /\ c.err \in {"ModelError", "ToolError"}

\* C23: a step that leaves a call awaiting the model or a tool batch, or
\* aborted by an exception of a model call or a tool call, leaves the
\* history and the summary of every registered session as they were; so
\* they are, in every such state, what they were when the call started.
C23_SessionFrame ==
  [][\A p \in Procs :
       MidTurn(call'[p]) =>
         \A id \in DOMAIN sessions :
           /\ id \in DOMAIN sessions'
           /\ sessions'[id].history = sessions[id].history
           /\ sessions'[id].summary = sessions[id].summary]_vars

\* A call on a session that holds an earlier turn has raised with the
\* exception of a tool call, or of a model call after a tool batch.
C23_Witness ==
  \E p \in Procs :
    /\ call[p].pc = "raised"
    /\ call[p].err \in {"ModelError", "ToolError"}
    /\ call[p].batches + Len(call[p].tasks) >= 1
    /\ sessions[call[p].session_id].history # << >>

\* A history of adjacent (user message, assistant message without tool
\* requests) pairs.
IsPairs(history) ==
  /\ Len(history) % 2 = 0
  /\ \A i \in 1..Len(history) :
       IF i % 2 = 1
       THEN history[i].role = "user"
       ELSE history[i].role = "assistant" /\ ~HasToolCalls(history[i])

StartsWithUser(s) == s # << >> => s[1].role = "user"

\* C24: the history of every session is a sequence of (user, assistant
\* without tool requests) pairs, also when calls on the session overlap and
\* after compactions; the window of line 186 and the tail of line 126
\* start with a user message.
C24_HistoryIsPairs ==
  \A id \in DOMAIN sessions :
    /\ IsPairs(sessions[id].history)
    /\ StartsWithUser(LastN(sessions[id].history, Window))
    /\ StartsWithUser(LastN(sessions[id].history, KeepTail))

\* Two calls on one session are both past their terminal branch, one of
\* them after a tool batch, and a compaction has cut the history while the
\* other call was awaiting its own summarization.
C24_Witness ==
  /\ call["p1"].pc = "returned"
  /\ call["p2"].pc = "await_summary"
  /\ call["p1"].session_id = call["p2"].session_id
  /\ call["p1"].batches + call["p2"].batches >= 1
  /\ Len(sessions["s1"].history) = KeepTail
  /\ Len(sessions["s1"].persisted) > Len(call["p1"].serialized)

\* The step in which the model call of p ends and the callback is given a
\* plan event.
PlanEmitted(p) ==
  /\ Len(call'[p].events) > Len(call[p].events)
  /\ call'[p].events[Len(call[p].events) + 1].type = "plan"

\* The response that the step has added to the messages of p has visible
\* content and carries tool requests.
ContentWithRequests(p) ==
  /\ Len(call'[p].messages) = Len(call[p].messages) + 1
  /\ LET m == call'[p].messages[Len(call'[p].messages)]
     IN  m.role = "assistant" /\ m.content # "" /\ HasToolCalls(m)

\* C25: when a model call of a call with a callback ends, the callback is
\* given a plan event exactly when the response has visible content and
\* carries tool requests; a final answer gives no plan event.
C25_PlanWithRequestsOnly ==
  [][\A p \in Procs :
       (call[p].pc = "await_model" /\ call[p].on_step # None
          /\ call'[p].pc # "await_model")
         => (PlanEmitted(p) <=> ContentWithRequests(p))]_vars

\* A RETURN table with a message of type E (error) or A (abort).
SapRefuses(messages) ==
  \E i \in 1..Len(messages) :
    "TYPE" \in DOMAIN messages[i] /\ messages[i].TYPE \in {"E", "A"}

\* The position of the first call of fn in the RFC calls of reset_password,
\* 0 when there is none.
FirstCall(fn) ==
  LET at == { i \in 1..Len(reset_password.rfc) : reset_password.rfc[i].fn = fn }
  IN  IF at = {} THEN 0 ELSE CHOOSE i \in at : \A j \in at : i <= j

\* BAPI_USER_CHANGE has returned a response that cannot be committed: a
\* message of type E or A, or no generated password.
Refused ==
  /\ FirstCall("BAPI_USER_CHANGE") # 0
  /\ ~reset_password.rfc[FirstCall("BAPI_USER_CHANGE")].raised
  /\ \/ SapRefuses(reset_password.resp.RETURN)
     \/ reset_password.resp.GENERATED_PASSWORD \in {None, ""}

\* C26: reset_password returns success with a password and no error only
\* after BAPI_USER_CHANGE gave no E or A message and a non-empty password
\* and BAPI_TRANSACTION_COMMIT returned; on every other path it returns a
\* failure with no password and an error text; the commit is never called
\* after an E or A message or a missing password.
C26_ResetPasswordResult ==
  LET r == reset_password
      commit == FirstCall("BAPI_TRANSACTION_COMMIT")
  IN  /\ r.pc = "returned" =>
           IF r.result.success
           THEN /\ r.result.password \notin {None, ""}
                /\ r.result.password = r.resp.GENERATED_PASSWORD
                /\ r.result.error = None
                /\ ~SapRefuses(r.resp.RETURN)
                /\ commit # 0 /\ ~r.rfc[commit].raised
           ELSE /\ r.result.password = None
                /\ r.result.error \notin {None, ""}
                /\ commit # 0 => r.rfc[commit].raised
      /\ Refused => commit = 0

\* reset_password has returned a failure after BAPI_USER_CHANGE gave a
\* message of type A with an empty text beside a generated password, and
\* the rollback was called.
C26_Witness ==
  /\ reset_password.pc = "returned"
  /\ ~reset_password.result.success
  /\ reset_password.resp.GENERATED_PASSWORD = "Init1234"
  /\ SapRefuses(reset_password.resp.RETURN)
  /\ reset_password.result.error = "SAP error during password reset."
  /\ FirstCall("BAPI_TRANSACTION_ROLLBACK") # 0

=============================================================================
